---- MODULE Spec2Model ----
(***************************************************************************)
(* Model of src/app.py: the download-and-transcribe pipeline behind the    *)
(* routes index ("/") and api_transcribe ("/api/transcribe").              *)
(*                                                                         *)
(* One request is followed from the handler's entry to its return.  The    *)
(* external collaborators (yt-dlp, the filesystem, the AssemblyAI HTTP     *)
(* API, the wall clock) are nondeterministic: each blocking call draws its *)
(* outcome from a small set.  Python strings that the code inspects (the   *)
(* URL) are sequences of one-character strings; messages are sequences of  *)
(* string pieces.                                                          *)
(***************************************************************************)
EXTENDS Integers, Sequences, FiniteSets, TLC

VARIABLES
    endpoint,     \* "index" (POST /) or "api" (POST /api/transcribe)
    url,          \* the raw youtube_url field of the request
    pc,           \* position of the handler
    probeOut,     \* what ydl.extract_info(download=False) did for this request
    video_info,   \* value returned by validate_video_info
    temp_dir,     \* local temp_dir of the handler: NoPath or a directory name
    audio_file,   \* local audio_file of the handler: NoPath or an extension
    dirExists,    \* filesystem: does the temporary directory exist
    files,        \* filesystem: extension -> size of <temp_dir>/audio<ext>, Absent if none
    producer,     \* history: extension -> strategy whose call wrote that file
    i,            \* loop index of download_audio (0-based, as enumerate)
    invoked,      \* history: the ydl.download calls of this download_audio call, in
                  \* order: the strategy number (1-based) and what the call did
    fails,        \* the str(e) logged by the warnings of lines 216 and 221, in order
    clock,        \* time.time()
    start_time,   \* start_time of the polling loop
    lastPoll,     \* the most recent status response of the speech service
    pollsAfterTerminal, \* history: status requests issued after a completed/error response
    transcript,   \* value returned by upload_to_assemblyai
    exc,          \* exception propagating to the handler's except clauses
    root,         \* history: class of the exception first raised in the failing chain
    response,     \* what the handler returns
    rmFailed,     \* history: os.remove in cleanup_temp_files raised
    rmtreeFailed, \* history: shutil.rmtree in cleanup_temp_files raised
    stages,       \* history: the stages the request has entered, in order
    called,       \* history: the kinds of external call the request has made
    txFailed,     \* history: 0, or 1 once a step of upload_to_assemblyai has failed,
                  \* or 2 once an external call was made after that
    reqs,         \* concurrent handlers: request -> its position and its locals
    disk          \* concurrent handlers: directory name -> what the filesystem holds

vars == <<endpoint, url, pc, probeOut, video_info, temp_dir, audio_file, dirExists,
          files, producer, i, invoked, fails, clock, start_time, lastPoll,
          pollsAfterTerminal, transcript, exc, root, response, rmFailed, rmtreeFailed,
          stages, called, txFailed, reqs, disk>>

----------------------------------------------------------------------------
(* Configuration, src/app.py lines 31-34 *)

MAX_VIDEO_DURATION == 1800

MAX_FILE_SIZE == 100 * 1024 * 1024

TRANSCRIPTION_TIMEOUT == 600

(* the sanity floor of download_audio and the ceiling of upload_to_assemblyai *)
MIN_FILE_SIZE == 1024

ASSEMBLYAI_MAX_SIZE == 200 * 1024 * 1024

(* timeout=30 of the status request and time.sleep(5) of the polling loop *)
POLL_CALL_TIMEOUT == 30

POLL_SLEEP == 5

----------------------------------------------------------------------------
(* Python string primitives over sequences of one-character strings *)

(* s[a:b] with 1-based inclusive bounds *)
Slice(s, a, b) == IF a > b THEN <<>> ELSE SubSeq(s, a, b)

(* sub in s *)
Contains(s, sub) ==
    \E k \in 0..(Len(s) - Len(sub)) : Slice(s, k + 1, k + Len(sub)) = sub

(* s.startswith(p) *)
StartsWith(s, p) == Len(s) >= Len(p) /\ Slice(s, 1, Len(p)) = p

(* s.find(c) for a single character: 1-based index of the first c, 0 if none *)
Find(s, c) ==
    IF \E k \in 1..Len(s) : s[k] = c
    THEN CHOOSE k \in 1..Len(s) : s[k] = c /\ \A j \in 1..(k - 1) : s[j] # c
    ELSE 0

(* s.split(c) for a single character separator: always at least one piece *)
RECURSIVE Split(_, _)
Split(s, c) ==
    LET k == Find(s, c)
    IN  IF k = 0 THEN <<s>>
        ELSE <<Slice(s, 1, k - 1)>> \o Split(Slice(s, k + 1, Len(s)), c)

(* s.split(c, 1): at most two pieces *)
Split1(s, c) ==
    LET k == Find(s, c)
    IN  IF k = 0 THEN <<s>> ELSE <<Slice(s, 1, k - 1), Slice(s, k + 1, Len(s))>>

UpperChars == <<"A","B","C","D","E","F","G","H","I","J","K","L","M",
                "N","O","P","Q","R","S","T","U","V","W","X","Y","Z">>

LowerChars == <<"a","b","c","d","e","f","g","h","i","j","k","l","m",
                "n","o","p","q","r","s","t","u","v","w","x","y","z">>

LowerChar(c) ==
    IF \E k \in 1..26 : UpperChars[k] = c
    THEN LowerChars[CHOOSE k \in 1..26 : UpperChars[k] = c]
    ELSE c

(* s.lower() *)
Lower(s) == [k \in 1..Len(s) |-> LowerChar(s[k])]

(* s.strip(): leading and trailing blanks removed *)
RECURSIVE Strip(_)
Strip(s) ==
    IF s = <<>> THEN s
    ELSE IF s[1] = " " THEN Strip(Tail(s))
    ELSE IF s[Len(s)] = " " THEN Strip(Slice(s, 1, Len(s) - 1))
    ELSE s

IsAlpha(c) == \E k \in 1..26 : UpperChars[k] = c \/ LowerChars[k] = c

Digits == {"0","1","2","3","4","5","6","7","8","9"}

(* urllib.parse.scheme_chars *)
IsSchemeChar(c) == IsAlpha(c) \/ c \in Digits \/ c \in {"+", "-", "."}

----------------------------------------------------------------------------
(* urllib.parse, as far as extract_video_id uses it *)

(* the value None, which no string over the input alphabet equals *)
None == <<"None">>

(* _splitnetloc(url, 2): the netloc ends at the first of "/", "?", "#" *)
NetlocEnd(u) ==
    LET stops == {k \in 3..Len(u) : u[k] \in {"/", "?", "#"}}
    IN  IF stops = {} THEN Len(u) + 1
        ELSE CHOOSE k \in stops : \A j \in stops : k <= j

(* urlparse(url): the record of scheme, netloc, path, query, fragment.  The
   input alphabet has no ";", so the params split of urlparse never applies. *)
urlparse(u0) ==
    LET c      == Find(u0, ":")
        hasSch == /\ c > 1
                  /\ IsAlpha(u0[1])
                  /\ \A k \in 1..(c - 1) : IsSchemeChar(u0[k])
        scheme == IF hasSch THEN Lower(Slice(u0, 1, c - 1)) ELSE <<>>
        u1     == IF hasSch THEN Slice(u0, c + 1, Len(u0)) ELSE u0
        hasNet == Slice(u1, 1, 2) = <<"/", "/">> /\ Len(u1) >= 2
        e      == NetlocEnd(u1)
        netloc == IF hasNet THEN Slice(u1, 3, e - 1) ELSE <<>>
        u2     == IF hasNet THEN Slice(u1, e, Len(u1)) ELSE u1
        f      == Split1(u2, "#")
        u3     == f[1]
        q      == Split1(u3, "?")
    IN  [scheme   |-> scheme,
         netloc   |-> netloc,
         path     |-> q[1],
         query    |-> IF Len(q) = 2 THEN q[2] ELSE <<>>,
         fragment |-> IF Len(f) = 2 THEN f[2] ELSE <<>>]

(* parse_qs(query).get(name, [None])[0]: the value of the first name=value
   pair with that name; pairs without "=" or with a blank value are dropped
   (keep_blank_values=False, strict_parsing=False) *)
QueryFirst(query, name) ==
    LET pairs == Split(query, "&")
        Good(k) == LET nv == Split1(pairs[k], "=")
                   IN  Len(nv) = 2 /\ nv[1] = name /\ Len(nv[2]) > 0
        hits  == {k \in 1..Len(pairs) : Good(k)}
    IN  IF hits = {} THEN None
        ELSE Split1(pairs[CHOOSE k \in hits : \A j \in hits : k <= j], "=")[2]

----------------------------------------------------------------------------
(* URL Validator, src/app.py lines 64-78 *)

D_youtu_be == <<"y","o","u","t","u",".","b","e">>

D_youtube_com == <<"y","o","u","t","u","b","e",".","c","o","m">>

P_watch == <<"/","w","a","t","c","h">>

P_embed == <<"/","e","m","b","e","d","/">>

(* seq[-1] *)
Last(seq) == seq[Len(seq)]

extract_video_id(u) ==
    IF Contains(u, D_youtu_be)
    THEN Split(Last(Split(u, "/")), "?")[1]
    ELSE IF Contains(u, D_youtube_com)
    THEN LET parsed == urlparse(u)
         IN  IF parsed.path = P_watch
             THEN QueryFirst(parsed.query, <<"v">>)
             ELSE IF StartsWith(parsed.path, P_embed)
             THEN Split(parsed.path, "/")[3]
             ELSE None
    ELSE None

is_valid_youtube_url(u) ==
    /\ \E domain \in {D_youtube_com, D_youtu_be} : Contains(Lower(u), domain)
    /\ extract_video_id(u) # None

----------------------------------------------------------------------------
(* Exceptions.  The classes of src/app.py lines 36-54 and the library classes
   the code names or can meet, with Python's subclass relation. *)

Parent(c) ==
    CASE c = "VideoUnavailableError"   -> "YouTubeTranscriberError"
      [] c = "VideoTooLongError"       -> "YouTubeTranscriberError"
      [] c = "DownloadError"           -> "YouTubeTranscriberError"
      [] c = "TranscriptionError"      -> "YouTubeTranscriberError"
      [] c = "YouTubeTranscriberError" -> "Exception"
      [] c = "ExtractorError"          -> "Exception"
      [] c = "RequestException"        -> "OSError"
      [] c = "OSError"                 -> "Exception"
      [] c = "KeyError"                -> "Exception"
      [] OTHER                         -> "object"

(* isinstance(e, cls), which is what an except clause tests *)
RECURSIVE IsInstance(_, _)
IsInstance(c, cls) ==
    IF c = cls THEN TRUE
    ELSE IF c \in {"object", "none"} THEN FALSE
    ELSE IsInstance(Parent(c), cls)

Exc(type, msg) == [type |-> type, msg |-> msg]

NoExc == Exc("none", <<>>)

(* what a call gives back: a value, or an exception together with the class
   first raised in the chain that produced it *)
Returned(v) == [ok |-> TRUE, val |-> v, exc |-> NoExc, root |-> "none"]

Raised(e, r, v) == [ok |-> FALSE, val |-> v, exc |-> e, root |-> r]

----------------------------------------------------------------------------
(* Text.  Messages are sequences of pieces: words, blanks, punctuation and
   single digits. *)

(* str.lower() on a piece *)
LowerPiece(t) ==
    CASE t = "Video"   -> "video"
      [] t = "Private" -> "private"
      [] t = "Sign"    -> "sign"
      [] t = "ERROR"   -> "error"
      [] t = "HTTP"    -> "http"
      [] t = "Error"   -> "error"
      [] OTHER         -> LowerChar(t)

LowerText(s) == [k \in 1..Len(s) |-> LowerPiece(s[k])]

DigitChars == <<"0","1","2","3","4","5","6","7","8","9">>

(* str(n) for n >= 0 *)
RECURSIVE Str(_)
Str(n) ==
    IF n < 10 THEN <<DigitChars[n + 1]>>
    ELSE Str(n \div 10) \o <<DigitChars[(n % 10) + 1]>>

(* format(n, "02d") for n >= 0 *)
Str02(n) == IF n < 10 THEN <<"0">> \o Str(n) ELSE Str(n)

----------------------------------------------------------------------------
(* Video Metadata Probe, src/app.py lines 88-133 *)

(* info.get('duration', 0) when the key is absent *)
NoDuration == -1

NoInfo == [title |-> "", duration |-> NoDuration]

PH_video_unavailable == <<"video", " ", "unavailable">>

PH_content_not_available == <<"content", " ", "isn't", " ", "available">>

PH_private_video == <<"private", " ", "video">>

PH_sign_in == <<"sign", " ", "in", " ", "to", " ", "confirm", " ", "your", " ", "age">>

PH_removed == <<"video", " ", "has", " ", "been", " ", "removed">>

(* the try block with a gate that also refuses a video of exactly the limit *)
ProbeBody_GateAtLimit(o) ==
    IF o.kind = "extractor_error"
    THEN Raised(Exc("ExtractorError", o.text), "ExtractorError", NoInfo)
    ELSE IF o.kind = "error"
    THEN Raised(Exc("OSError", o.text), "OSError", NoInfo)
    ELSE IF o.kind = "none"
    THEN Raised(Exc("VideoUnavailableError",
                    <<"Video", " ", "is", " ", "unavailable", " ", "or", " ",
                      "cannot", " ", "be", " ", "accessed">>),
                "VideoUnavailableError", NoInfo)
    ELSE LET duration == IF o.duration = NoDuration THEN 0 ELSE o.duration
         IN  IF duration # 0 /\ duration >= MAX_VIDEO_DURATION
             THEN Raised(Exc("VideoTooLongError",
                             <<"Video", " ", "is", " ", "too", " ", "long", " ", "(">>
                             \o Str(duration \div 60) \o <<":">> \o Str02(duration % 60)
                             \o <<")", ".", " ", "Maximum", " ", "allowed", ":", " ">>
                             \o Str(MAX_VIDEO_DURATION \div 60) \o <<" ", "minutes">>),
                         "VideoTooLongError", NoInfo)
             ELSE Returned([title |-> "title", duration |-> duration])

(* the body of the try block, lines 101-120: o is what extract_info did *)
ProbeBody(o) ==
    IF o.kind = "extractor_error"
    THEN Raised(Exc("ExtractorError", o.text), "ExtractorError", NoInfo)
    ELSE IF o.kind = "error"
    THEN Raised(Exc("OSError", o.text), "OSError", NoInfo)
    ELSE IF o.kind = "none"
    THEN Raised(Exc("VideoUnavailableError",
                    <<"Video", " ", "is", " ", "unavailable", " ", "or", " ",
                      "cannot", " ", "be", " ", "accessed">>),
                "VideoUnavailableError", NoInfo)
    ELSE LET duration == IF o.duration = NoDuration THEN 0 ELSE o.duration
         IN  IF duration # 0 /\ duration > MAX_VIDEO_DURATION
             THEN Raised(Exc("VideoTooLongError",
                             <<"Video", " ", "is", " ", "too", " ", "long", " ", "(">>
                             \o Str(duration \div 60) \o <<":">> \o Str02(duration % 60)
                             \o <<")", ".", " ", "Maximum", " ", "allowed", ":", " ">>
                             \o Str(MAX_VIDEO_DURATION \div 60) \o <<" ", "minutes">>),
                         "VideoTooLongError", NoInfo)
             ELSE Returned([title |-> "title", duration |-> duration])

(* the except clauses, lines 122-133, applied to what the body raised *)
validate_video_info(o) ==
    LET r == ProbeBody(o)
    IN  IF r.ok THEN r
        ELSE IF IsInstance(r.exc.type, "ExtractorError")
        THEN LET error_msg == LowerText(r.exc.msg)
             IN  IF \E phrase \in {PH_video_unavailable, PH_content_not_available,
                                   PH_private_video} : Contains(error_msg, phrase)
                 THEN Raised(Exc("VideoUnavailableError",
                                 <<"Video", " ", "is", " ", "unavailable", ",", " ",
                                   "private", ",", " ", "or", " ", "restricted">>),
                             r.root, NoInfo)
                 ELSE IF Contains(error_msg, PH_sign_in)
                 THEN Raised(Exc("VideoUnavailableError",
                                 <<"Video", " ", "requires", " ", "age", " ",
                                   "verification">>),
                             r.root, NoInfo)
                 ELSE IF Contains(error_msg, PH_removed)
                 THEN Raised(Exc("VideoUnavailableError",
                                 <<"Video", " ", "has", " ", "been", " ", "removed">>),
                             r.root, NoInfo)
                 ELSE Raised(Exc("VideoUnavailableError",
                                 <<"Cannot", " ", "access", " ", "video", ":", " ">>
                                 \o r.exc.msg),
                             r.root, NoInfo)
        ELSE IF IsInstance(r.exc.type, "Exception")
        THEN Raised(Exc("YouTubeTranscriberError",
                        <<"Validation", " ", "failed", ":", " ">> \o r.exc.msg),
                    r.root, NoInfo)
        ELSE r

----------------------------------------------------------------------------
(* Audio Acquirer, src/app.py lines 135-226 *)

(* the strategies list, lines 142-163 *)
strategies ==
    << [name |-> "High Quality Audio",
        format |-> "bestaudio[filesize<50M]/bestaudio[ext=m4a]/bestaudio",
        quality |-> "192"],
       [name |-> "Medium Quality Audio",
        format |-> "bestaudio[filesize<30M]/bestaudio",
        quality |-> "128"],
       [name |-> "Low Quality Audio",
        format |-> "worstaudio[filesize<20M]/worstaudio",
        quality |-> "96"],
       [name |-> "Fallback - Any Audio",
        format |-> "best[filesize<50M]/best",
        quality |-> "64"] >>

(* possible_extensions, line 196, in search order *)
possible_extensions == <<".mp3", ".m4a", ".webm", ".mp4", ".wav", ".opus">>

ExtSet == {possible_extensions[k] : k \in 1..Len(possible_extensions)}

(* no file at a path; no path in a local variable *)
Absent == -1

NoPath == "none"

NoFiles == [e \in ExtSet |-> Absent]

NoProducer == [e \in ExtSet |-> 0]

(* the search of lines 197-199: the first candidate extension that exists *)
FirstExisting(fs) ==
    LET hits == {k \in 1..Len(possible_extensions) : fs[possible_extensions[k]] # Absent}
    IN  IF hits = {} THEN NoPath
        ELSE possible_extensions[CHOOSE k \in hits : \A j \in hits : k <= j]

M_too_large(file_size) ==
    <<"Downloaded", " ", "file", " ", "is", " ", "too", " ", "large", " ", "(">>
    \o Str((file_size \div 1024) \div 1024) \o <<"MB", ")", ".", " ", "Maximum", ":", " ">>
    \o Str((MAX_FILE_SIZE \div 1024) \div 1024) \o <<"MB">>

M_too_small ==
    <<"Downloaded", " ", "file", " ", "is", " ", "too", " ", "small", " ",
      "(", "likely", " ", "empty", ")">>

M_no_output == <<"No", " ", "output", " ", "file", " ", "found", " ", "after", " ", "download">>

M_all_failed == <<"All", " ", "download", " ", "strategies", " ", "failed", ":", " ">>

M_fell_through ==
    <<"Failed", " ", "to", " ", "download", " ", "audio", " ", "with", " ", "all", " ",
      "strategies">>

(* SizeGate without the ceiling *)
SizeGate_NoCeiling(fs, ext) ==
    LET file_size == fs[ext]
    IN  IF file_size < MIN_FILE_SIZE
        THEN [fs |-> [fs EXCEPT ![ext] = Absent],
              res |-> Raised(Exc("DownloadError", M_too_small), "DownloadError", NoPath)]
        ELSE [fs |-> fs, res |-> Returned(ext)]

(* SizeGate without the sanity floor *)
SizeGate_NoFloor(fs, ext) ==
    LET file_size == fs[ext]
    IN  IF file_size > MAX_FILE_SIZE
        THEN [fs |-> [fs EXCEPT ![ext] = Absent],
              res |-> Raised(Exc("DownloadError", M_too_large(file_size)),
                             "DownloadError", NoPath)]
        ELSE [fs |-> fs, res |-> Returned(ext)]

(* lines 200-211: the size gate on the file found.  Gives the filesystem
   after it and either the path to return or the DownloadError raised.
   os.remove of lines 204 and 208 is taken to succeed; only the deletions of
   cleanup_temp_files, which the code guards, are allowed to fail. *)
SizeGate(fs, ext) ==
    LET file_size == fs[ext]
    IN  IF file_size > MAX_FILE_SIZE
        THEN [fs |-> [fs EXCEPT ![ext] = Absent],
              res |-> Raised(Exc("DownloadError", M_too_large(file_size)),
                             "DownloadError", NoPath)]
        ELSE IF file_size < MIN_FILE_SIZE
        THEN [fs |-> [fs EXCEPT ![ext] = Absent],
              res |-> Raised(Exc("DownloadError", M_too_small), "DownloadError", NoPath)]
        ELSE [fs |-> fs, res |-> Returned(ext)]

(* the body of the try block of one loop iteration, lines 167-213: o is what
   ydl.download did, fs the files at the output prefix before the call *)
StrategyBody(o, fs) ==
    IF o.kind = "raise"
    THEN [fs |-> fs, res |-> Raised(Exc(o.type, o.text), o.type, NoPath)]
    ELSE LET fs1 == IF o.kind = "wrote" THEN [fs EXCEPT ![o.ext] = o.size] ELSE fs
             expected_file == FirstExisting(fs1)
         IN  IF expected_file # NoPath
             THEN SizeGate(fs1, expected_file)
             ELSE [fs |-> fs1,
                   res |-> Raised(Exc("DownloadError", M_no_output), "DownloadError", NoPath)]

(* StrategyExcept that keeps trying after a success, but for the last *)
StrategyExcept_ContinueOnSuccess(idx, b) ==
    IF b.res.ok
    THEN [fs |-> b.fs, res |-> b.res, cont |-> idx < Len(strategies) - 1]
    ELSE IF idx = Len(strategies) - 1
    THEN [fs |-> b.fs, cont |-> FALSE,
          res |-> Raised(Exc("DownloadError", M_all_failed \o b.res.exc.msg),
                         b.res.root, NoPath)]
    ELSE [fs |-> b.fs, res |-> b.res, cont |-> TRUE]

(* StrategyExcept whose final DownloadError drops str(e) *)
StrategyExcept_DropsCause(idx, b) ==
    IF b.res.ok
    THEN [fs |-> b.fs, res |-> b.res, cont |-> FALSE]
    ELSE IF idx = Len(strategies) - 1
    THEN [fs |-> b.fs, cont |-> FALSE,
          res |-> Raised(Exc("DownloadError", M_fell_through), b.res.root, NoPath)]
    ELSE [fs |-> b.fs, res |-> b.res, cont |-> TRUE]

(* the except clauses of one loop iteration, lines 215-224, for loop index
   idx (0-based): what leaves the iteration.  cont says the loop continues. *)
StrategyExcept(idx, b) ==
    IF b.res.ok
    THEN [fs |-> b.fs, res |-> b.res, cont |-> FALSE]
    ELSE IF IsInstance(b.res.exc.type, "ExtractorError")
    THEN IF idx = Len(strategies) - 1
         THEN [fs |-> b.fs, cont |-> FALSE,
               res |-> Raised(Exc("DownloadError", M_all_failed \o b.res.exc.msg),
                              b.res.root, NoPath)]
         ELSE [fs |-> b.fs, res |-> b.res, cont |-> TRUE]
    ELSE IF IsInstance(b.res.exc.type, "Exception")
    THEN IF idx = Len(strategies) - 1
         THEN [fs |-> b.fs, cont |-> FALSE,
               res |-> Raised(Exc("DownloadError", M_all_failed \o b.res.exc.msg),
                              b.res.root, NoPath)]
         ELSE [fs |-> b.fs, res |-> b.res, cont |-> TRUE]
    ELSE [fs |-> b.fs, res |-> b.res, cont |-> FALSE]

(* one iteration of the for loop, lines 165-224 *)
StrategyStep(idx, o, fs) == StrategyExcept(idx, StrategyBody(o, fs))

M_ffmpeg ==
    <<"FFmpeg", " ", "not", " ", "found", ".", " ", "Please", " ", "install", " ",
      "FFmpeg", ".">>

(* check_ffmpeg, lines 80-86: found is whether shutil.which gave a path *)
check_ffmpeg(found) ==
    IF ~found
    THEN Raised(Exc("YouTubeTranscriberError", M_ffmpeg), "YouTubeTranscriberError", NoPath)
    ELSE Returned("ffmpeg")

----------------------------------------------------------------------------
(* Transcription Client, src/app.py lines 228-311 *)

M_no_key == <<"AssemblyAI", " ", "API", " ", "key", " ", "not", " ", "configured">>

M_too_large_upload ==
    <<"Audio", " ", "file", " ", "is", " ", "too", " ", "large", " ", "for", " ",
      "transcription", " ", "(", ">", "2", "0", "0", "MB", ")">>

M_upload_failed == <<"Upload", " ", "failed", ":", " ">>

M_request_failed == <<"Transcription", " ", "request", " ", "failed", ":", " ">>

M_status_failed == <<"Status", " ", "check", " ", "failed", ":", " ">>

M_timed_out == <<"Transcription", " ", "timed", " ", "out">>

M_transcription_failed == <<"Transcription", " ", "failed", ":", " ">>

M_unknown_error == <<"Unknown", " ", "error">>

M_network_error == <<"Network", " ", "error", ":", " ">>

M_transcription_error == <<"Transcription", " ", "error", ":", " ">>

(* the size check rejecting a file of exactly the limit *)
UploadPrecheck_RejectsAtLimit(key_set, file_size) ==
    IF ~key_set
    THEN Raised(Exc("TranscriptionError", M_no_key), "TranscriptionError", <<>>)
    ELSE IF file_size >= ASSEMBLYAI_MAX_SIZE
    THEN Raised(Exc("TranscriptionError", M_too_large_upload), "TranscriptionError", <<>>)
    ELSE Returned(<<>>)

(* lines 232-239: the checks made before the try block.  key_set is whether
   ASSEMBLYAI_API_KEY is configured, file_size what os.path.getsize gave. *)
UploadPrecheck(key_set, file_size) ==
    IF ~key_set
    THEN Raised(Exc("TranscriptionError", M_no_key), "TranscriptionError", <<>>)
    ELSE IF file_size > ASSEMBLYAI_MAX_SIZE
    THEN Raised(Exc("TranscriptionError", M_too_large_upload), "TranscriptionError", <<>>)
    ELSE Returned(<<>>)

(* the except clauses of lines 308-311, applied to what the try block raised *)
UploadExcept(r) ==
    IF r.ok THEN r
    ELSE IF IsInstance(r.exc.type, "RequestException")
    THEN Raised(Exc("TranscriptionError", M_network_error \o r.exc.msg), r.root, <<>>)
    ELSE IF IsInstance(r.exc.type, "Exception")
    THEN Raised(Exc("TranscriptionError", M_transcription_error \o r.exc.msg), r.root, <<>>)
    ELSE r

(* one requests.post/get and the reading of its answer: o is what the call
   did, failed_msg the prefix of the message for a non-200 answer, key the
   JSON key the code reads from a 200 answer *)
HttpBody(o, failed_msg, key) ==
    IF o.kind = "transport"
    THEN Raised(Exc("RequestException", o.text), "RequestException", <<>>)
    ELSE IF o.status_code # 200
    THEN Raised(Exc("TranscriptionError", failed_msg \o o.text), "TranscriptionError", <<>>)
    ELSE IF ~o.has_key
    THEN Raised(Exc("KeyError", <<"'", key, "'">>), "KeyError", <<>>)
    ELSE Returned(o.value)

(* lines 245-257: the upload *)
UploadStep(o) == UploadExcept(HttpBody(o, M_upload_failed, "upload_url"))

(* lines 259-278: the transcription request *)
SubmitStep(o) == UploadExcept(HttpBody(o, M_request_failed, "id"))

NoPoll == [status |-> "none", text |-> <<>>, error |-> None]

Terminal(status) == status \in {"completed", "error"}

(* PollDecide without the error branch: an error answer is slept on *)
PollDecide_ErrorIgnored(t) ==
    IF t.status = "completed"
    THEN [next |-> "return", res |-> Returned(t.text)]
    ELSE [next |-> "continue", res |-> Returned(<<>>)]

(* lines 295-304: what the loop does with a status answer: "return" the text,
   raise, or "continue" to the sleep *)
PollDecide(t) ==
    IF t.status = "completed"
    THEN [next |-> "return", res |-> Returned(t.text)]
    ELSE IF t.status = "error"
    THEN LET error_msg == IF t.error = None THEN M_unknown_error ELSE t.error
         IN  [next |-> "raise",
              res |-> Raised(Exc("TranscriptionError", M_transcription_failed \o error_msg),
                             "TranscriptionError", <<>>)]
    ELSE [next |-> "continue", res |-> Returned(<<>>)]

(* a polling loop without the budget test *)
TimedOut_Never(now, start) == FALSE

(* line 283: the budget test at the top of each iteration *)
TimedOut(now, start) == now - start > TRANSCRIPTION_TIMEOUT

(* a polling loop that sleeps on a failed status request and asks again *)
PollBody_RetriesOnFailure(o) ==
    LET got == HttpBody(o, M_status_failed, "status")
    IN  IF ~got.ok THEN [next |-> "continue", res |-> Returned(<<>>)]
        ELSE PollDecide(got.val)

(* lines 286-304: the status request of one iteration and what follows it *)
PollBody(o) ==
    LET got == HttpBody(o, M_status_failed, "status")
    IN  IF ~got.ok THEN [next |-> "raise", res |-> got]
        ELSE PollDecide(got.val)

----------------------------------------------------------------------------
(* Temporary resources, src/app.py lines 313-327 *)

T_permission_denied == <<"Permission", " ", "denied">>

(* cleanup_temp_files with os.remove outside a try statement: its exception
   leaves the function before shutil.rmtree is reached *)
cleanup_temp_files_Unguarded(td, af, dir, fs, rm_ok, rmtree_ok) ==
    LET rm_called     == af # NoPath /\ fs[af] # Absent
        fs1           == IF rm_called /\ rm_ok THEN [fs EXCEPT ![af] = Absent] ELSE fs
        rmtree_called == td # NoPath /\ dir /\ ~(rm_called /\ ~rm_ok)
    IN  [dir           |-> IF rmtree_called /\ rmtree_ok THEN FALSE ELSE dir,
         fs            |-> IF rmtree_called /\ rmtree_ok THEN NoFiles ELSE fs1,
         rm_failed     |-> rm_called /\ ~rm_ok,
         rmtree_failed |-> rmtree_called /\ ~rmtree_ok,
         raised        |-> IF rm_called /\ ~rm_ok THEN Exc("OSError", T_permission_denied)
                           ELSE NoExc]

(* cleanup_temp_files returning early when no audio file was produced *)
cleanup_temp_files_NoArtifactNoRmtree(td, af, dir, fs, rm_ok, rmtree_ok) ==
    LET rm_called     == af # NoPath /\ fs[af] # Absent
        fs1           == IF rm_called /\ rm_ok THEN [fs EXCEPT ![af] = Absent] ELSE fs
        rmtree_called == af # NoPath /\ td # NoPath /\ dir
    IN  [dir           |-> IF rmtree_called /\ rmtree_ok THEN FALSE ELSE dir,
         fs            |-> IF rmtree_called /\ rmtree_ok THEN NoFiles ELSE fs1,
         rm_failed     |-> rm_called /\ ~rm_ok,
         rmtree_failed |-> rmtree_called /\ ~rmtree_ok,
         raised        |-> NoExc]

(* cleanup_temp_files(temp_dir, audio_file) on a filesystem (dir, fs);
   rm_ok and rmtree_ok say whether os.remove and shutil.rmtree succeed when
   they are called.  A failed call leaves the filesystem as it was, and its
   exception is caught by the except clause of lines 319 and 326: raised is
   the exception that leaves the function. *)
cleanup_temp_files(td, af, dir, fs, rm_ok, rmtree_ok) ==
    LET rm_called     == af # NoPath /\ fs[af] # Absent
        fs1           == IF rm_called /\ rm_ok THEN [fs EXCEPT ![af] = Absent] ELSE fs
        rmtree_called == td # NoPath /\ dir
    IN  [dir           |-> IF rmtree_called /\ rmtree_ok THEN FALSE ELSE dir,
         fs            |-> IF rmtree_called /\ rmtree_ok THEN NoFiles ELSE fs1,
         rm_failed     |-> rm_called /\ ~rm_ok,
         rmtree_failed |-> rmtree_called /\ ~rmtree_ok,
         raised        |-> NoExc]

----------------------------------------------------------------------------
(* Pipeline Orchestrator: the handlers index (lines 329-383) and
   api_transcribe (lines 385-436) *)

M_enter_url == <<"Please", " ", "enter", " ", "a", " ", "YouTube", " ", "URL">>

M_enter_valid_url == <<"Please", " ", "enter", " ", "a", " ", "valid", " ", "YouTube", " ", "URL">>

M_download_failed == <<"Download", " ", "failed", ":", " ">>

M_unexpected ==
    <<"An", " ", "unexpected", " ", "error", " ", "occurred", ".", " ",
      "Please", " ", "try", " ", "again", ".">>

NoResponse ==
    [status |-> 0, success |-> FALSE, error |-> <<>>, transcript |-> <<>>,
     video_info |-> NoInfo]

ErrorResponse(code, msg) ==
    [status |-> code, success |-> FALSE, error |-> msg, transcript |-> <<>>,
     video_info |-> NoInfo]

(* the except clauses of api_transcribe, lines 419-433 *)
api_except(e) ==
    IF IsInstance(e.type, "VideoUnavailableError") THEN ErrorResponse(400, e.msg)
    ELSE IF IsInstance(e.type, "VideoTooLongError") THEN ErrorResponse(400, e.msg)
    ELSE IF IsInstance(e.type, "DownloadError")
    THEN ErrorResponse(500, M_download_failed \o e.msg)
    ELSE IF IsInstance(e.type, "TranscriptionError")
    THEN ErrorResponse(500, M_transcription_failed \o e.msg)
    ELSE ErrorResponse(500, M_unexpected)

(* the except clauses of index, lines 366-380: render_template answers 200 *)
index_except(e) ==
    IF IsInstance(e.type, "VideoUnavailableError") THEN ErrorResponse(200, e.msg)
    ELSE IF IsInstance(e.type, "VideoTooLongError") THEN ErrorResponse(200, e.msg)
    ELSE IF IsInstance(e.type, "DownloadError")
    THEN ErrorResponse(200, M_download_failed \o e.msg)
    ELSE IF IsInstance(e.type, "TranscriptionError")
    THEN ErrorResponse(200, M_transcription_failed \o e.msg)
    ELSE ErrorResponse(200, M_unexpected)

(* the return of the try block, lines 361-364 and 413-417 *)
SuccessResponse(text, info) ==
    [status |-> 200, success |-> TRUE, error |-> <<>>, transcript |-> text,
     video_info |-> info]

(* what leaves the try statement: the return value or an except clause's *)
HandlerResult(ep, e, text, info) ==
    IF e = NoExc THEN SuccessResponse(text, info)
    ELSE IF ep = "api" THEN api_except(e)
    ELSE index_except(e)

M_internal_error == <<"Internal", " ", "server", " ", "error">>

(* a finally clause that raises replaces the handler's return by the answer
   of the 500 handler, lines 452-454 *)
FinallyResult(resp, raised) ==
    IF raised = NoExc THEN resp ELSE ErrorResponse(500, M_internal_error)

(* the early returns of lines 338-342 and 390-394 *)
EarlyResponse(ep, msg) == ErrorResponse(IF ep = "api" THEN 400 ELSE 200, msg)

(* youtube_url of the handler: the field, stripped (lines 336, 388) *)
youtube_url == Strip(url)

----------------------------------------------------------------------------
(* What the collaborators can do *)

U_https == <<"h","t","t","p","s",":","/","/">>

U_www == <<"w","w","w",".">>

U_example_com == <<"e","x","a","m","p","l","e",".","c","o","m">>

U_id == <<"a","b","c">>

(* the request fields the pipeline is run on *)
RequestUrls ==
    { <<>>,
      <<" ">>,
      U_https \o U_example_com \o <<"/">> \o U_id,
      <<" ">> \o U_https \o D_youtu_be \o <<"/">> \o U_id \o <<" ">> }

(* durations extract_info reports; NoDuration is an info dict without the key *)
Durations == {NoDuration, 0, MAX_VIDEO_DURATION, MAX_VIDEO_DURATION + 1, 2 * MAX_VIDEO_DURATION}

ExtractorTexts ==
    { <<"ERROR", ":", " ", "Video", " ", "unavailable">>,
      <<"ERROR", ":", " ", "Private", " ", "video">>,
      <<"Sign", " ", "in", " ", "to", " ", "confirm", " ", "your", " ", "age">>,
      <<"ERROR", ":", " ", "Video", " ", "has", " ", "been", " ", "removed">>,
      <<"HTTP", " ", "Error", " ", "4", "0", "3">> }

T_connection_reset == <<"connection", " ", "reset">>

ProbeOut(kind, duration, text) == [kind |-> kind, duration |-> duration, text |-> text]

NoProbe == ProbeOut("not called", NoDuration, <<>>)

ProbeOutcomes ==
    {ProbeOut("none", NoDuration, <<>>), ProbeOut("error", NoDuration, T_connection_reset)}
    \cup {ProbeOut("info", d, <<>>) : d \in Durations}
    \cup {ProbeOut("extractor_error", NoDuration, t) : t \in ExtractorTexts}

(* sizes of the file a download call can leave: around the limits of
   download_audio, and over the limit of upload_to_assemblyai *)
FileSizes ==
    {0, MIN_FILE_SIZE - 1, MIN_FILE_SIZE, MAX_FILE_SIZE, MAX_FILE_SIZE + 1,
     ASSEMBLYAI_MAX_SIZE + 1}

(* extensions a download call can leave its file under *)
WrittenExts == {".mp3", ".m4a"}

T_format_unavailable == <<"Requested", " ", "format", " ", "is", " ", "not", " ", "available">>

T_postprocessing == <<"Postprocessing", " ", "failed">>

DlOut(kind, type, text, ext, size) ==
    [kind |-> kind, type |-> type, text |-> text, ext |-> ext, size |-> size]

(* ydl.download: raises, returns having written nothing at a candidate
   extension, or returns having written one file.  A call that raises leaves
   no file at a candidate extension. *)
DownloadOutcomes ==
    { DlOut("raise", "ExtractorError", T_format_unavailable, NoPath, Absent),
      DlOut("raise", "OSError", T_postprocessing, NoPath, Absent),
      DlOut("nothing", "none", <<>>, NoPath, Absent) }
    \cup {DlOut("wrote", "none", <<>>, e, sz) : e \in WrittenExts, sz \in FileSizes}

HttpOut(kind, status_code, has_key, value, text) ==
    [kind |-> kind, status_code |-> status_code, has_key |-> has_key,
     value |-> value, text |-> text]

T_timeout == <<"Read", " ", "timed", " ", "out">>

T_server_error == <<"Internal", " ", "Server", " ", "Error">>

(* a requests call: transport failure, a non-200 answer, a 200 answer whose
   JSON lacks the key read, or a 200 answer carrying one of the values *)
HttpOutcomes(values, none) ==
    { HttpOut("transport", 0, FALSE, none, T_timeout),
      HttpOut("answer", 500, FALSE, none, T_server_error),
      HttpOut("answer", 200, FALSE, none, <<>>) }
    \cup {HttpOut("answer", 200, TRUE, v, <<>>) : v \in values}

T_hello_world == <<"hello", " ", "world">>

T_other_text == <<"other", " ", "text">>

T_bad_audio == <<"File", " ", "does", " ", "not", " ", "contain", " ", "audio">>

PollAnswer(status, text, error) == [status |-> status, text |-> text, error |-> error]

(* the status documents of the speech service *)
PollAnswers ==
    { PollAnswer("queued", <<>>, None),
      PollAnswer("processing", <<"partial">>, None),
      PollAnswer("completed", T_hello_world, None),
      PollAnswer("completed", T_other_text, None),
      PollAnswer("error", <<>>, T_bad_audio),
      PollAnswer("error", <<>>, None) }

(* how long one status request can take: at once, or its full timeout *)
PollLatencies == {0, POLL_CALL_TIMEOUT}

----------------------------------------------------------------------------
(* The state machine of one request *)

(* the stage the handler is in at position p: Validating is the check of the
   field (lines 388-394), Probing the call of validate_video_info (line 401),
   Downloading runs from tempfile.mkdtemp to the return of download_audio
   (lines 404-408), Transcribing is the call of upload_to_assemblyai (line
   411); the request is Done or Failed once its response resp is made.  cur
   is the stage it was in. *)
StageAt(p, resp, cur) ==
    IF p = "receive" THEN "Validating"
    ELSE IF p = "probe" THEN "Probing"
    ELSE IF p \in {"mkdtemp", "check_ffmpeg", "strategy"} THEN "Downloading"
    ELSE IF p \in {"upload_entry", "upload", "submit", "poll"} THEN "Transcribing"
    ELSE IF p \in {"finally", "done"} THEN (IF resp.success THEN "Done" ELSE "Failed")
    ELSE cur

(* the stages entered, after a step that leaves the handler at position p *)
NextStages(st, p, resp) ==
    IF StageAt(p, resp, Last(st)) = Last(st) THEN st
    ELSE Append(st, StageAt(p, resp, Last(st)))

(* what a requests call did counts as a failure of the transcription stage:
   no answer, an answer other than 200, or a 200 answer without the key read *)
HttpFailed(o) == o.kind = "transport" \/ o.status_code # 200 \/ ~o.has_key

(* txFailed after an external call, failed_now saying whether the call failed *)
AfterCall(tx, failed_now) == IF tx >= 1 THEN 2 ELSE IF failed_now THEN 1 ELSE 0

(* txFailed after a check that makes no external call *)
AfterCheck(tx, failed_now) == IF failed_now /\ tx = 0 THEN 1 ELSE tx

(* no other handler is running *)
NoReqs == <<>>

NoDisk == <<>>

(* the state of a handler that has just been entered, but for the field *)
InitHandler ==
    /\ endpoint \in {"index", "api"}
    /\ pc = "receive"
    /\ probeOut = NoProbe
    /\ video_info = NoInfo
    /\ temp_dir = NoPath
    /\ audio_file = NoPath
    /\ dirExists = FALSE
    /\ files = NoFiles
    /\ producer = NoProducer
    /\ i = 0
    /\ invoked = <<>>
    /\ fails = <<>>
    /\ clock = 0
    /\ start_time = 0
    /\ lastPoll = NoPoll
    /\ pollsAfterTerminal = 0
    /\ transcript = <<>>
    /\ exc = NoExc
    /\ root = "none"
    /\ response = NoResponse
    /\ rmFailed = FALSE
    /\ rmtreeFailed = FALSE
    /\ stages = <<"Validating">>
    /\ called = {}
    /\ txFailed = 0

(* the handler alone *)
InitRest ==
    /\ InitHandler
    /\ reqs = NoReqs
    /\ disk = NoDisk

Init == url \in RequestUrls /\ InitRest

(* a handler that makes its temporary directory before it looks at the field *)
Receive_MakesTempDir ==
    /\ pc = "receive"
    /\ \/ /\ youtube_url = <<>>
          /\ response' = EarlyResponse(endpoint, M_enter_url)
          /\ pc' = "done"
       \/ /\ youtube_url # <<>>
          /\ ~is_valid_youtube_url(youtube_url)
          /\ response' = EarlyResponse(endpoint, M_enter_valid_url)
          /\ pc' = "done"
       \/ /\ youtube_url # <<>>
          /\ is_valid_youtube_url(youtube_url)
          /\ response' = response
          /\ pc' = "probe"
    /\ temp_dir' = "tmp"
    /\ dirExists' = TRUE
    /\ UNCHANGED <<endpoint, url, probeOut, video_info, audio_file,
                   files, producer, i, invoked, fails, clock, start_time, lastPoll,
                   pollsAfterTerminal, transcript, exc, root, rmFailed, rmtreeFailed>>
    /\ stages' = NextStages(stages, pc', response')
    /\ UNCHANGED <<called, txFailed>>
    /\ UNCHANGED <<reqs, disk>>

(* lines 336-345 and 388-397: read the field, the two early returns *)
Receive ==
    /\ pc = "receive"
    /\ \/ /\ youtube_url = <<>>
          /\ response' = EarlyResponse(endpoint, M_enter_url)
          /\ pc' = "done"
       \/ /\ youtube_url # <<>>
          /\ ~is_valid_youtube_url(youtube_url)
          /\ response' = EarlyResponse(endpoint, M_enter_valid_url)
          /\ pc' = "done"
       \/ /\ youtube_url # <<>>
          /\ is_valid_youtube_url(youtube_url)
          /\ response' = response
          /\ pc' = "probe"
    /\ UNCHANGED <<endpoint, url, probeOut, video_info, temp_dir, audio_file, dirExists,
                   files, producer, i, invoked, fails, clock, start_time, lastPoll,
                   pollsAfterTerminal, transcript, exc, root, rmFailed, rmtreeFailed>>
    /\ stages' = NextStages(stages, pc', response')
    /\ UNCHANGED <<called, txFailed>>
    /\ UNCHANGED <<reqs, disk>>

(* the probe with its failure ignored: the handler goes on to the download
   whatever validate_video_info did *)
Probe_IgnoresFailure ==
    /\ pc = "probe"
    /\ \E o \in ProbeOutcomes :
          LET r == validate_video_info(o)
          IN  /\ probeOut' = o
              /\ video_info' = r.val
              /\ exc' = NoExc
              /\ root' = "none"
              /\ pc' = "mkdtemp"
    /\ UNCHANGED <<endpoint, url, temp_dir, audio_file, dirExists, files, producer, i,
                   invoked, fails, clock, start_time, lastPoll, pollsAfterTerminal,
                   transcript, response, rmFailed, rmtreeFailed>>
    /\ stages' = NextStages(stages, pc', response')
    /\ called' = called \cup {"probe"}
    /\ txFailed' = AfterCall(txFailed, FALSE)
    /\ UNCHANGED <<reqs, disk>>

(* lines 349 and 401: video_info = validate_video_info(youtube_url) *)
Probe ==
    /\ pc = "probe"
    /\ \E o \in ProbeOutcomes :
          LET r == validate_video_info(o)
          IN  /\ probeOut' = o
              /\ video_info' = r.val
              /\ exc' = r.exc
              /\ root' = r.root
              /\ pc' = IF r.ok THEN "mkdtemp" ELSE "respond"
    /\ UNCHANGED <<endpoint, url, temp_dir, audio_file, dirExists, files, producer, i,
                   invoked, fails, clock, start_time, lastPoll, pollsAfterTerminal,
                   transcript, response, rmFailed, rmtreeFailed>>
    /\ stages' = NextStages(stages, pc', response')
    /\ called' = called \cup {"probe"}
    /\ txFailed' = AfterCall(txFailed, FALSE)
    /\ UNCHANGED <<reqs, disk>>

T_no_space == <<"No", " ", "space", " ", "left", " ", "on", " ", "device">>

(* lines 352-353 and 404-405: temp_dir = tempfile.mkdtemp() *)
MakeTempDir ==
    /\ pc = "mkdtemp"
    /\ \/ /\ temp_dir' = "tmp"
          /\ dirExists' = TRUE
          /\ pc' = "check_ffmpeg"
          /\ UNCHANGED <<exc, root>>
       \/ /\ exc' = Exc("OSError", T_no_space)
          /\ root' = "OSError"
          /\ pc' = "respond"
          /\ UNCHANGED <<temp_dir, dirExists>>
    /\ UNCHANGED <<endpoint, url, probeOut, video_info, audio_file, files, producer, i,
                   invoked, fails, clock, start_time, lastPoll, pollsAfterTerminal,
                   transcript, response, rmFailed, rmtreeFailed>>
    /\ stages' = NextStages(stages, pc', response')
    /\ UNCHANGED <<called, txFailed>>
    /\ UNCHANGED <<reqs, disk>>

(* lines 135-139: entry of download_audio, ffmpeg_path = check_ffmpeg() *)
DownloadEntry ==
    /\ pc = "check_ffmpeg"
    /\ \E found \in BOOLEAN :
          LET r == check_ffmpeg(found)
          IN  /\ exc' = r.exc
              /\ root' = r.root
              /\ pc' = IF r.ok THEN "strategy" ELSE "respond"
    /\ i' = 0
    /\ UNCHANGED <<endpoint, url, probeOut, video_info, temp_dir, audio_file, dirExists,
                   files, producer, invoked, fails, clock, start_time, lastPoll,
                   pollsAfterTerminal, transcript, response, rmFailed, rmtreeFailed>>
    /\ stages' = NextStages(stages, pc', response')
    /\ UNCHANGED <<called, txFailed>>
    /\ UNCHANGED <<reqs, disk>>

(* lines 165-226: one iteration of the strategy loop, and what follows it:
   the return into the handler's audio_file, the next iteration, or the
   DownloadError that leaves download_audio *)
TryStrategy ==
    /\ pc = "strategy"
    /\ \E o \in DownloadOutcomes :
          LET body == StrategyBody(o, files)
              st   == StrategyStep(i, o, files)
          IN  /\ invoked' = Append(invoked, [strategy |-> i + 1, did |-> o])
              /\ producer' = IF o.kind = "wrote" THEN [producer EXCEPT ![o.ext] = i + 1]
                             ELSE producer
              /\ files' = st.fs
              /\ fails' = IF body.res.ok THEN fails ELSE Append(fails, body.res.exc.msg)
              /\ IF st.cont
                 THEN IF i + 1 < Len(strategies)
                      THEN /\ i' = i + 1
                           /\ pc' = "strategy"
                           /\ UNCHANGED <<audio_file, exc, root>>
                      ELSE /\ exc' = Exc("DownloadError", M_fell_through)
                           /\ root' = "DownloadError"
                           /\ pc' = "respond"
                           /\ UNCHANGED <<audio_file, i>>
                 ELSE IF st.res.ok
                 THEN /\ audio_file' = st.res.val
                      /\ pc' = "upload_entry"
                      /\ UNCHANGED <<i, exc, root>>
                 ELSE /\ exc' = st.res.exc
                      /\ root' = st.res.root
                      /\ pc' = "respond"
                      /\ UNCHANGED <<audio_file, i>>
    /\ UNCHANGED <<endpoint, url, probeOut, video_info, temp_dir, dirExists, clock,
                   start_time, lastPoll, pollsAfterTerminal, transcript, response,
                   rmFailed, rmtreeFailed>>
    /\ stages' = NextStages(stages, pc', response')
    /\ called' = called \cup {"download"}
    /\ txFailed' = AfterCall(txFailed, FALSE)
    /\ UNCHANGED <<reqs, disk>>

(* lines 228-241: entry of upload_to_assemblyai, the checks before the try
   block.  download_audio has returned: its loop index is gone, and the
   history of its calls is forgotten with it. *)
UploadEntry ==
    /\ pc = "upload_entry"
    /\ \E key_set \in BOOLEAN :
          LET r == UploadPrecheck(key_set, files[audio_file])
          IN  /\ txFailed' = AfterCheck(txFailed, ~r.ok)
              /\ exc' = r.exc
              /\ root' = r.root
              /\ pc' = IF r.ok THEN "upload" ELSE "respond"
    /\ i' = 0
    /\ invoked' = <<>>
    /\ fails' = <<>>
    /\ producer' = NoProducer
    /\ UNCHANGED <<endpoint, url, probeOut, video_info, temp_dir, audio_file, dirExists,
                   files, clock, start_time, lastPoll, pollsAfterTerminal, transcript,
                   response, rmFailed, rmtreeFailed>>
    /\ stages' = NextStages(stages, pc', response')
    /\ UNCHANGED called
    /\ UNCHANGED <<reqs, disk>>

(* lines 243-257: the upload *)
Upload ==
    /\ pc = "upload"
    /\ \E o \in HttpOutcomes({<<"upload_url">>}, <<>>) :
          LET r == UploadStep(o)
          IN  /\ txFailed' = AfterCall(txFailed, HttpFailed(o))
              /\ exc' = r.exc
              /\ root' = r.root
              /\ pc' = IF r.ok THEN "submit" ELSE "respond"
    /\ UNCHANGED <<endpoint, url, probeOut, video_info, temp_dir, audio_file, dirExists,
                   files, producer, i, invoked, fails, clock, start_time, lastPoll,
                   pollsAfterTerminal, transcript, response, rmFailed, rmtreeFailed>>
    /\ stages' = NextStages(stages, pc', response')
    /\ called' = called \cup {"upload"}
    /\ UNCHANGED <<reqs, disk>>

(* lines 259-281: the transcription request, then start_time = time.time() *)
Submit ==
    /\ pc = "submit"
    /\ \E o \in HttpOutcomes({<<"transcript_id">>}, <<>>) :
          LET r == SubmitStep(o)
          IN  /\ txFailed' = AfterCall(txFailed, HttpFailed(o))
              /\ exc' = r.exc
              /\ root' = r.root
              /\ pc' = IF r.ok THEN "poll" ELSE "respond"
    /\ start_time' = clock
    /\ UNCHANGED <<endpoint, url, probeOut, video_info, temp_dir, audio_file, dirExists,
                   files, producer, i, invoked, fails, clock, lastPoll,
                   pollsAfterTerminal, transcript, response, rmFailed, rmtreeFailed>>
    /\ stages' = NextStages(stages, pc', response')
    /\ called' = called \cup {"submit"}
    /\ UNCHANGED <<reqs, disk>>

(* lines 282-306: one iteration of the polling loop: the budget test, the
   status request (taking lat seconds), and the return, the raise or the
   sleep that follows *)
Poll ==
    /\ pc = "poll"
    /\ \/ /\ TimedOut(clock, start_time)
          /\ LET r == UploadExcept(Raised(Exc("TranscriptionError", M_timed_out),
                                          "TranscriptionError", <<>>))
             IN  /\ exc' = r.exc
                 /\ root' = r.root
          /\ pc' = "respond"
          /\ txFailed' = AfterCheck(txFailed, TRUE)
          /\ UNCHANGED <<called, clock, lastPoll, pollsAfterTerminal, transcript>>
       \/ /\ ~TimedOut(clock, start_time)
          /\ \E lat \in PollLatencies, o \in HttpOutcomes(PollAnswers, NoPoll) :
                LET b == PollBody(o)
                    r == UploadExcept(b.res)
                IN  /\ called' = called \cup {"poll"}
                    /\ txFailed' = AfterCall(txFailed, HttpFailed(o) \/ o.value.status = "error")
                    /\ lastPoll' = IF o.kind = "answer" /\ o.status_code = 200 /\ o.has_key
                                   THEN o.value ELSE lastPoll
                    /\ pollsAfterTerminal' = IF Terminal(lastPoll.status) THEN 1
                                             ELSE pollsAfterTerminal
                    /\ IF b.next = "continue"
                       THEN /\ clock' = clock + lat + POLL_SLEEP
                            /\ pc' = "poll"
                            /\ UNCHANGED <<transcript, exc, root>>
                       ELSE /\ clock' = clock + lat
                            /\ transcript' = IF r.ok THEN r.val ELSE transcript
                            /\ exc' = r.exc
                            /\ root' = r.root
                            /\ pc' = "respond"
    /\ UNCHANGED <<endpoint, url, probeOut, video_info, temp_dir, audio_file, dirExists,
                   files, producer, i, invoked, fails, start_time, response, rmFailed,
                   rmtreeFailed>>
    /\ stages' = NextStages(stages, pc', response')
    /\ UNCHANGED <<reqs, disk>>

(* lines 361-380 and 413-433: the return of the try block or the except
   clause that matches *)
Respond ==
    /\ pc = "respond"
    /\ response' = HandlerResult(endpoint, exc, transcript, video_info)
    /\ pc' = "finally"
    /\ UNCHANGED <<endpoint, url, probeOut, video_info, temp_dir, audio_file, dirExists,
                   files, producer, i, invoked, fails, clock, start_time, lastPoll,
                   pollsAfterTerminal, transcript, exc, root, rmFailed, rmtreeFailed>>
    /\ stages' = NextStages(stages, pc', response')
    /\ UNCHANGED <<called, txFailed>>
    /\ UNCHANGED <<reqs, disk>>

(* lines 382-383 and 435-436: the finally clause, after which the handler
   has returned.  The called functions' frames are gone: their loop
   variables and the histories of their calls are forgotten. *)
Cleanup ==
    /\ pc = "finally"
    /\ \E rm_ok \in BOOLEAN, rmtree_ok \in BOOLEAN :
          LET c == cleanup_temp_files(temp_dir, audio_file, dirExists, files, rm_ok, rmtree_ok)
          IN  /\ dirExists' = c.dir
              /\ files' = c.fs
              /\ rmFailed' = c.rm_failed
              /\ rmtreeFailed' = c.rmtree_failed
              /\ response' = FinallyResult(response, c.raised)
    /\ pc' = "done"
    /\ i' = 0
    /\ invoked' = <<>>
    /\ fails' = <<>>
    /\ producer' = NoProducer
    /\ clock' = 0
    /\ start_time' = 0
    /\ lastPoll' = NoPoll
    /\ pollsAfterTerminal' = 0
    /\ UNCHANGED <<endpoint, url, probeOut, video_info, temp_dir, audio_file, transcript,
                   exc, root, called, txFailed>>
    /\ stages' = NextStages(stages, pc', response')
    /\ UNCHANGED <<reqs, disk>>

Next ==
    \/ Receive
    \/ Probe
    \/ MakeTempDir
    \/ DownloadEntry
    \/ TryStrategy
    \/ UploadEntry
    \/ Upload
    \/ Submit
    \/ Poll
    \/ Respond
    \/ Cleanup

Spec == Init /\ [][Next]_vars

(* The runs in which the collaborators answer from a narrower choice: one
   text per kind of probe failure, a duration at the limit or just over it,
   downloads that raise, write nothing, or write an .mp3 of 0 or 1024 bytes,
   and a job that is processing, completed or failed. *)
FairEnv ==
    /\ probeOut.duration \in {NoDuration, MAX_VIDEO_DURATION, MAX_VIDEO_DURATION + 1}
    /\ probeOut.kind = "extractor_error" => probeOut.text = <<"ERROR", ":", " ", "Video", " ", "unavailable">>
    /\ \A k \in 1..Len(invoked) :
          /\ invoked[k].did.type # "OSError"
          /\ invoked[k].did.ext \in {NoPath, ".mp3"}
          /\ invoked[k].did.size \in {Absent, 0, MIN_FILE_SIZE}
    /\ lastPoll.status # "queued"
    /\ lastPoll.text # T_other_text
    /\ lastPoll.error = None

NextFair ==
    \/ Receive /\ FairEnv'
    \/ Probe /\ FairEnv'
    \/ MakeTempDir /\ FairEnv'
    \/ DownloadEntry /\ FairEnv'
    \/ TryStrategy /\ FairEnv'
    \/ UploadEntry /\ FairEnv'
    \/ Upload /\ FairEnv'
    \/ Submit /\ FairEnv'
    \/ Poll /\ FairEnv'
    \/ Respond /\ FairEnv'
    \/ Cleanup /\ FairEnv'

(* the handler keeps running: every blocking call it makes returns or raises
   within its timeout (socket_timeout of yt-dlp, timeout= of the requests
   calls), so a step that can be taken is eventually taken *)
(* an empty field and an accepted one *)
InitFair == url \in {<<>>, U_https \o D_youtu_be \o <<"/">> \o U_id} /\ InitRest

SpecFair == InitFair /\ [][NextFair]_vars /\ WF_vars(NextFair)

----------------------------------------------------------------------------
(* The validator on its own: the handler's entry run on a wide set of
   fields, put together from the pieces of a URL *)

UrlSchemes == {<<>>, U_https, <<"H","T","T","P","S",":","/","/">>}

UrlHosts ==
    { <<>>,
      D_youtu_be,
      U_www \o D_youtube_com,
      <<"m",".">> \o D_youtube_com,
      <<"W","W","W",".","Y","O","U","T","U","B","E",".","C","O","M">>,
      <<"Y","O","U","T","U",".","B","E">>,
      U_example_com }

UrlPaths ==
    { <<>>,
      <<"/">>,
      <<"/">> \o U_id,
      P_watch,
      P_watch \o <<"/">>,
      P_embed,
      P_embed \o U_id,
      <<"/","e","m","b","e","d">> }

UrlQueries ==
    { <<>>,
      <<"?","v","=">> \o U_id,
      <<"?","v","=">>,
      <<"?","v">>,
      <<"?","t","=","1">>,
      <<"?","t","=","1","&","v","=">> \o U_id,
      <<"?","f","=">> \o D_youtu_be \o <<"&","v","=">> \o U_id,
      <<"#","v","=">> \o U_id }

UrlInputs ==
    {s \o h \o p \o q : s \in UrlSchemes, h \in UrlHosts, p \in UrlPaths, q \in UrlQueries}
    \cup {<<" ">>}

InitUrl == url \in UrlInputs /\ InitRest

SpecUrl == InitUrl /\ [][Receive]_vars

----------------------------------------------------------------------------
(* upload_to_assemblyai on its own, called with a file of any size: the
   handler stands at line 411 with a file that download_audio's limits did
   not choose *)

UploadSizes ==
    {MIN_FILE_SIZE, MAX_FILE_SIZE, ASSEMBLYAI_MAX_SIZE - 1, ASSEMBLYAI_MAX_SIZE,
     ASSEMBLYAI_MAX_SIZE + 1, 2 * ASSEMBLYAI_MAX_SIZE}

InitUpload ==
    /\ endpoint \in {"index", "api"}
    /\ url = U_https \o D_youtu_be \o <<"/">> \o U_id
    /\ pc = "upload_entry"
    /\ probeOut = ProbeOut("info", 0, <<>>)
    /\ video_info = validate_video_info(probeOut).val
    /\ temp_dir = "tmp"
    /\ audio_file = ".mp3"
    /\ dirExists = TRUE
    /\ \E sz \in UploadSizes : files = [NoFiles EXCEPT ![".mp3"] = sz]
    /\ producer = NoProducer
    /\ i = 0
    /\ invoked = <<>>
    /\ fails = <<>>
    /\ clock = 0
    /\ start_time = 0
    /\ lastPoll = NoPoll
    /\ pollsAfterTerminal = 0
    /\ transcript = <<>>
    /\ exc = NoExc
    /\ root = "none"
    /\ response = NoResponse
    /\ rmFailed = FALSE
    /\ rmtreeFailed = FALSE
    /\ stages = <<"Validating", "Probing", "Downloading", "Transcribing">>
    /\ called = {"probe", "download"}
    /\ txFailed = 0
    /\ reqs = NoReqs
    /\ disk = NoDisk

NextUpload ==
    \/ UploadEntry
    \/ Upload
    \/ Submit
    \/ Poll
    \/ Respond
    \/ Cleanup

SpecUpload == InitUpload /\ [][NextUpload]_vars

----------------------------------------------------------------------------
(* Several handlers at once.  Flask serves each request in a thread of its
   own; the threads share nothing but the filesystem.  Each handler is
   followed through the steps that touch the filesystem: tempfile.mkdtemp
   (lines 352 and 404), the strategies of download_audio on
   os.path.join(temp_dir, 'audio') (lines 353-356 and 405-408), the reading of
   the returned file by upload_to_assemblyai (lines 235 and 246), and
   cleanup_temp_files (lines 383 and 436).  The steps of different handlers
   interleave freely. *)

MaxRequests == 2

Requests == 1..MaxRequests

TempNames == <<"tmp1", "tmp2", "tmp3", "tmp4", "tmp5", "tmp6">>

(* the names tempfile.mkdtemp can give: one more than there are handlers *)
DirNames == {TempNames[k] : k \in 1..(MaxRequests + 1)}

NoDir == [exists |-> FALSE, files |-> NoFiles, writer |-> NoProducer]

(* mkdtemp handing out one fixed name, whether or not it is taken *)
mkdtemp_SharedName(dk) == {TempNames[1]}

(* tempfile.mkdtemp on filesystem dk: the directory is created under a name
   that did not exist (os.mkdir fails on a name that does, and another name
   is tried) *)
mkdtemp(dk) == {d \in DirNames : ~dk[d].exists}

(* what ydl.download does in these runs *)
SharedDownloadOutcomes ==
    { DlOut("raise", "ExtractorError", T_format_unavailable, NoPath, Absent),
      DlOut("wrote", "none", <<>>, ".mp3", 0),
      DlOut("wrote", "none", <<>>, ".mp3", MIN_FILE_SIZE),
      DlOut("wrote", "none", <<>>, ".m4a", MAX_FILE_SIZE) }

NewRequest == [pc |-> "mkdtemp", temp_dir |-> NoPath, audio_file |-> NoPath, i |-> 0]

(* every handler is about to make its directory; no directory exists *)
InitShared ==
    /\ url = <<>>
    /\ InitHandler
    /\ endpoint = "api"
    /\ reqs = [r \in Requests |-> NewRequest]
    /\ disk = [d \in DirNames |-> NoDir]

(* temp_dir = tempfile.mkdtemp() of handler r *)
MakeTempDirOf(r) ==
    /\ reqs[r].pc = "mkdtemp"
    /\ \E d \in mkdtemp(disk) :
          /\ reqs' = [reqs EXCEPT ![r].temp_dir = d, ![r].pc = "strategy"]
          /\ disk' = [disk EXCEPT ![d] = [exists |-> TRUE, files |-> @.files,
                                          writer |-> @.writer]]

(* one iteration of the strategy loop of handler r, on the files of its
   temp_dir; the loop index is gone when download_audio is left *)
TryStrategyOf(r) ==
    /\ reqs[r].pc = "strategy"
    /\ \E o \in SharedDownloadOutcomes :
          LET d  == reqs[r].temp_dir
              st == StrategyStep(reqs[r].i, o, disk[d].files)
              w  == IF o.kind = "wrote" THEN [disk[d].writer EXCEPT ![o.ext] = r]
                    ELSE disk[d].writer
          IN  /\ disk' = [disk EXCEPT ![d] =
                             [exists |-> @.exists, files |-> st.fs,
                              writer |-> [e \in ExtSet |-> IF st.fs[e] = Absent THEN 0 ELSE w[e]]]]
              /\ reqs' = IF st.cont /\ reqs[r].i + 1 < Len(strategies)
                         THEN [reqs EXCEPT ![r].i = @ + 1]
                         ELSE IF ~st.cont /\ st.res.ok
                         THEN [reqs EXCEPT ![r].audio_file = st.res.val, ![r].i = 0,
                                           ![r].pc = "upload"]
                         ELSE [reqs EXCEPT ![r].i = 0, ![r].pc = "finally"]

(* upload_to_assemblyai of handler r reads its audio_file *)
UploadOf(r) ==
    /\ reqs[r].pc = "upload"
    /\ reqs' = [reqs EXCEPT ![r].pc = "finally"]
    /\ disk' = disk

(* the finally clause of handler r, after which it has returned *)
CleanupOf(r) ==
    /\ reqs[r].pc = "finally"
    /\ \E rm_ok \in BOOLEAN, rmtree_ok \in BOOLEAN :
          LET d == reqs[r].temp_dir
              c == cleanup_temp_files(d, reqs[r].audio_file, disk[d].exists,
                                      disk[d].files, rm_ok, rmtree_ok)
          IN  disk' = [disk EXCEPT ![d] =
                          [exists |-> c.dir, files |-> c.fs,
                           writer |-> [e \in ExtSet |-> IF c.fs[e] = Absent THEN 0
                                                        ELSE @.writer[e]]]]
    /\ reqs' = [reqs EXCEPT ![r].audio_file = NoPath, ![r].pc = "done"]

(* the handler under study is not running *)
MainIdle ==
    UNCHANGED <<endpoint, url, pc, probeOut, video_info, temp_dir, audio_file, dirExists,
                files, producer, i, invoked, fails, clock, start_time, lastPoll,
                pollsAfterTerminal, transcript, exc, root, response, rmFailed,
                rmtreeFailed, stages, called, txFailed>>

NextShared ==
    \E r \in Requests :
        \/ MakeTempDirOf(r) /\ MainIdle
        \/ TryStrategyOf(r) /\ MainIdle
        \/ UploadOf(r) /\ MainIdle
        \/ CleanupOf(r) /\ MainIdle

SpecShared == InitShared /\ [][NextShared]_vars

----------------------------------------------------------------------------
(* Properties *)

(* the four classified variants a component raises by name *)
Taxonomy == {"VideoUnavailableError", "VideoTooLongError", "DownloadError", "TranscriptionError"}

(* the handler has left its try statement *)
Answered == pc \in {"finally", "done"}

(* the probe reported a duration above the ceiling *)
ReportedTooLong == probeOut.kind = "info" /\ probeOut.duration > MAX_VIDEO_DURATION

(* C1: whenever the metadata probe reports a duration greater than 1800
   seconds, the exception that reaches the handler is VideoTooLongError and
   no download strategy is invoked (no temporary directory either). *)
C1_TooLongReachesHandler ==
    ReportedTooLong =>
        /\ exc.type = "VideoTooLongError"
        /\ invoked = <<>>
        /\ temp_dir = NoPath
        /\ pc \in {"respond", "finally", "done"}

(* C2: once the handler has returned, neither the temporary directory nor
   any file in it (the audio artifact included) exists. *)
C2_NothingLeft ==
    pc = "done" => (~dirExists /\ \A e \in ExtSet : files[e] = Absent)

(* C2, amended: once the handler has returned, the temporary directory and
   the files in it are gone unless shutil.rmtree itself failed. *)
C2_NothingLeftUnlessRmtreeFails ==
    pc = "done" => ((dirExists \/ \E e \in ExtSet : files[e] # Absent) => rmtreeFailed)

(* C2 witness: a request that downloaded an artifact, failed or succeeded
   later, and whose directory and artifact were removed by the cleanup. *)
C2_Witness ==
    /\ pc = "done"
    /\ temp_dir # NoPath
    /\ audio_file # NoPath
    /\ ~rmtreeFailed
    /\ ~dirExists
    /\ files = NoFiles

(* the variant of a failed request: the class first raised when it is one of
   the taxonomy, else the class the component turned the failure into; a
   request refused before the try statement failed validation *)
FailureVariant ==
    IF exc = NoExc THEN "ValidationFailed"
    ELSE IF root \in Taxonomy THEN root
    ELSE IF exc.type \in Taxonomy THEN exc.type
    ELSE "Unexpected"

(* C3: a failed request to api_transcribe is answered 400 when the failure
   is ValidationFailed, VideoUnavailable or VideoTooLong, and 500 when it is
   DownloadFailed, TranscriptionFailed or Unexpected. *)
C3_StatusByVariant ==
    (endpoint = "api" /\ Answered /\ ~response.success) =>
        /\ FailureVariant \in {"ValidationFailed", "VideoUnavailableError", "VideoTooLongError"}
              => response.status = 400
        /\ FailureVariant \in {"DownloadError", "TranscriptionError", "Unexpected"}
              => response.status = 500

(* the polling loop's elapsed time, time.time() - start_time *)
Elapsed == clock - start_time

(* the polling loop has handed a result back to the handler *)
ResultReturned == pc = "respond" /\ exc = NoExc

(* C4: measured from the start of polling, the elapsed time never exceeds
   the budget of 600 s before the timeout error is raised: once more than
   600 s have elapsed the loop is not still running, and no result is
   returned after the budget has elapsed. *)
C4_BudgetRespected ==
    Elapsed > TRANSCRIPTION_TIMEOUT => (pc # "poll" /\ ~ResultReturned)

(* C5: polling stops at the first completed or error answer: the loop is
   never at its top after one and no status request follows one; a completed
   answer's text is what is returned, an error answer raises
   TranscriptionError carrying the service's message, and nothing is
   returned unless the last answer was completed. *)
C5_PollingStopsAtTerminal ==
    /\ pollsAfterTerminal = 0
    /\ pc = "poll" => ~Terminal(lastPoll.status)
    /\ (pc \in {"respond", "finally"} /\ lastPoll.status = "completed")
          => (exc = NoExc /\ transcript = lastPoll.text)
    /\ (pc \in {"respond", "finally"} /\ lastPoll.status = "error")
          => /\ exc.type = "TranscriptionError"
             /\ lastPoll.error # None => Contains(exc.msg, lastPoll.error)
    /\ (pc \in {"respond", "finally"} /\ exc = NoExc)
          => (lastPoll.status = "completed" /\ transcript = lastPoll.text)

(* C5 witness: a completed answer after at least one non-terminal answer,
   its text returned. *)
C5_Witness ==
    /\ pc = "respond"
    /\ lastPoll.status = "completed"
    /\ Elapsed >= POLL_SLEEP
    /\ transcript = T_hello_world
    /\ exc = NoExc

(* a size the gate of download_audio lets through *)
ValidSize(sz) == sz >= MIN_FILE_SIZE /\ sz <= MAX_FILE_SIZE

(* the first k-1 calls failed by an extraction error or by leaving no file *)
EarlierFailedPlainly(k) ==
    \A j \in 1..(k - 1) : invoked[j].did.kind \in {"raise", "nothing"}

(* C6: strategies are invoked in declared order, each at most once, none
   skipped; and if calls 1..k-1 failed (error or no output file) and call k
   left a file of valid size, download_audio has returned exactly that file
   and call k is the last one made. *)
C6_FirstSuccessReturned ==
    /\ Len(invoked) <= Len(strategies)
    /\ \A j \in 1..Len(invoked) : invoked[j].strategy = j
    /\ \A k \in 1..Len(invoked) :
          (/\ EarlierFailedPlainly(k)
           /\ invoked[k].did.kind = "wrote"
           /\ ValidSize(invoked[k].did.size))
          => /\ Len(invoked) = k
             /\ pc = "upload_entry"
             /\ audio_file = invoked[k].did.ext
             /\ files[audio_file] = invoked[k].did.size
             /\ producer[audio_file] = k

(* C6 witness: the first call raised, the second left no file, the third
   left a valid file, which was returned. *)
C6_Witness ==
    /\ pc = "upload_entry"
    /\ Len(invoked) = 3
    /\ invoked[1].did.kind = "raise"
    /\ invoked[2].did.kind = "nothing"
    /\ invoked[3].did.kind = "wrote"
    /\ audio_file = invoked[3].did.ext

M_size_rejections == {M_too_small} \cup {M_too_large(sz) : sz \in FileSizes}

(* C7: download_audio never returns a file below 1024 bytes or above
   100*1024*1024 bytes; a file of such a size left by a strategy other than
   the last is deleted, the strategy is logged as failed, and the loop goes
   on to the next strategy. *)
C7_OutOfRangeRejected ==
    /\ pc = "upload_entry" => ValidSize(files[audio_file])
    /\ \A k \in 1..Len(invoked) :
          (/\ k < Len(strategies)
           /\ invoked[k].did.kind = "wrote"
           /\ ~ValidSize(invoked[k].did.size))
          => /\ Len(fails) >= k
             /\ fails[k] \in M_size_rejections
             /\ Len(invoked) > k \/ (pc = "strategy" /\ i = k)
             /\ \/ files[invoked[k].did.ext] = Absent
                \/ producer[invoked[k].did.ext] > k

(* C7 witness: the first call left a file above the ceiling, the second a
   file below the floor, and a later call's valid file was returned. *)
C7_Witness ==
    /\ pc = "upload_entry"
    /\ Len(invoked) >= 3
    /\ invoked[1].did.kind = "wrote"
    /\ invoked[1].did.size > MAX_FILE_SIZE
    /\ invoked[2].did.kind = "wrote"
    /\ invoked[2].did.size < MIN_FILE_SIZE
    /\ files[audio_file] = MAX_FILE_SIZE

(* how a download call failed, in the words the loop logs for it *)
FailureText(o) ==
    IF o.kind = "raise" THEN o.text
    ELSE IF o.kind = "nothing" THEN M_no_output
    ELSE IF o.size > MAX_FILE_SIZE THEN M_too_large(o.size)
    ELSE M_too_small

CallFailed(o) == o.kind \in {"raise", "nothing"} \/ ~ValidSize(o.size)

AllStrategiesFailed ==
    /\ Len(invoked) = Len(strategies)
    /\ \A j \in 1..Len(invoked) : CallFailed(invoked[j].did)

(* C8: if every strategy fails, download_audio raises DownloadError whose
   message is "All download strategies failed: " followed by the failure of
   the last strategy, it returns no path, and api_transcribe answers 500
   with "Download failed: " and that message. *)
C8_LastFailureReported ==
    AllStrategiesFailed =>
        /\ pc \in {"respond", "finally"}
        /\ exc.type = "DownloadError"
        /\ exc.msg = M_all_failed \o FailureText(invoked[Len(strategies)].did)
        /\ audio_file = NoPath
        /\ (pc = "finally" /\ endpoint = "api")
              => /\ response.status = 500
                 /\ response.error = M_download_failed \o exc.msg

(* C8 witness: every strategy failed, the first and the last in different
   ways, and the API answered. *)
C8_Witness ==
    /\ AllStrategiesFailed
    /\ pc = "finally"
    /\ endpoint = "api"
    /\ FailureText(invoked[1].did) # FailureText(invoked[Len(strategies)].did)
    /\ invoked[Len(strategies)].did.kind = "wrote"

(* C9: a VideoUnavailable, VideoTooLong, DownloadFailed or
   TranscriptionFailed raised inside a component reaches the handler as the
   same variant. *)
C9_VariantPreserved ==
    (pc = "respond" /\ root \in Taxonomy) => exc.type = root

(* the field contains one of the recognised host domains *)
HasHostDomain(u) == \E domain \in {D_youtube_com, D_youtu_be} : Contains(Lower(u), domain)

(* the validator let the field through *)
Accepted == pc = "probe"

Rejected == pc = "done" /\ response.error \in {M_enter_url, M_enter_valid_url}

(* watch, short-link and embed URLs with the identifier present *)
WellFormedUrls ==
    {U_https \o D_youtu_be \o <<"/">> \o U_id}
    \cup {U_https \o h \o P_watch \o <<"?","v","=">> \o U_id :
             h \in {U_www \o D_youtube_com, <<"m",".">> \o D_youtube_com}}
    \cup {U_https \o h \o P_embed \o U_id :
             h \in {U_www \o D_youtube_com, <<"m",".">> \o D_youtube_com}}

(* C10: the validator accepts only fields that contain a recognised host
   domain and yield a non-empty identifier, rejects every field without the
   domain or with an absent or empty identifier, and accepts every watch,
   short-link and embed URL whose identifier is present. *)
C10_ValidIffIdentifier ==
    pc # "receive" =>
        /\ Accepted => (HasHostDomain(youtube_url)
                        /\ extract_video_id(youtube_url) \notin {None, <<>>})
        /\ (~HasHostDomain(youtube_url) \/ extract_video_id(youtube_url) \in {None, <<>>})
              => Rejected
        /\ youtube_url \in WellFormedUrls => Accepted

(* the four working stages, in the order of the handler's try block *)
StageOrder == <<"Validating", "Probing", "Downloading", "Transcribing">>

TerminalStages == {"Done", "Failed"}

IsPrefix(a, b) == Len(a) <= Len(b) /\ a = SubSeq(b, 1, Len(a))

Entered(stage) == \E k \in 1..Len(stages) : stages[k] = stage

(* the stages entered before the request ended *)
WorkingStages ==
    IF Last(stages) \in TerminalStages THEN SubSeq(stages, 1, Len(stages) - 1) ELSE stages

(* C11: the stages are entered in the order Validating, Probing, Downloading,
   Transcribing, each at most once and none skipped; Probing is entered only
   with an accepted field, Downloading only after validate_video_info
   returned, Transcribing only after download_audio returned a file; a
   request that has returned ended in exactly one of Done and Failed, and
   nothing follows that; ydl.download is called only after the probe
   returned the video's information. *)
C11_StagesForward ==
    /\ IsPrefix(WorkingStages, StageOrder)
    /\ \A k \in 1..Len(WorkingStages) : WorkingStages[k] \notin TerminalStages
    /\ pc = "done" => Last(stages) \in TerminalStages
    /\ Last(stages) \in TerminalStages => pc \in {"finally", "done"}
    /\ Last(stages) = "Done" => WorkingStages = StageOrder /\ exc = NoExc
    /\ Entered("Probing") => is_valid_youtube_url(youtube_url)
    /\ Entered("Downloading") =>
          /\ probeOut.kind = "info"
          /\ video_info # NoInfo
    /\ Entered("Transcribing") => audio_file # NoPath
    /\ "download" \in called =>
          /\ "probe" \in called
          /\ video_info # NoInfo
          /\ Entered("Downloading")

(* a request has gone through all four stages, making every kind of external
   call, and ended in Done *)
C11_Witness ==
    /\ pc = "done"
    /\ stages = StageOrder \o <<"Done">>
    /\ called = {"probe", "download", "upload", "submit", "poll"}

(* handler r has made its directory and has not returned *)
InFlight(r) == reqs[r].temp_dir # NoPath /\ reqs[r].pc # "done"

(* C12: in every interleaving of the handlers, two handlers in flight never
   have the same temp_dir (and so never the same audio path); the directory
   of a handler in flight exists; every file on the disk lies in the
   directory of the handler whose download wrote it; and the file a handler
   got from download_audio is still there, as that handler wrote it, when
   upload_to_assemblyai reads it and until its own cleanup: no other
   handler's download, rejection or cleanup has deleted or overwritten it. *)
C12_RequestsIsolated ==
    /\ \A r \in Requests, q \in Requests :
          InFlight(r) /\ InFlight(q) /\ r # q => reqs[r].temp_dir # reqs[q].temp_dir
    /\ \A r \in Requests : InFlight(r) => disk[reqs[r].temp_dir].exists
    /\ \A d \in DirNames, e \in ExtSet :
          disk[d].files[e] # Absent =>
             /\ disk[d].writer[e] \in Requests
             /\ reqs[disk[d].writer[e]].temp_dir = d
    /\ \A r \in Requests :
          reqs[r].pc \in {"upload", "finally"} /\ reqs[r].audio_file # NoPath =>
             /\ disk[reqs[r].temp_dir].files[reqs[r].audio_file] # Absent
             /\ disk[reqs[r].temp_dir].writer[reqs[r].audio_file] = r

(* two handlers hold a downloaded file each at the same time *)
C12_Witness ==
    /\ reqs[1].pc = "upload"
    /\ reqs[2].pc = "upload"
    /\ reqs[1].temp_dir # reqs[2].temp_dir

(* the longest the polling loop can last: the budget, one status request
   that began within it, and the sleep before the test that ends the loop *)
PollingBound == TRANSCRIPTION_TIMEOUT + POLL_CALL_TIMEOUT + POLL_SLEEP

(* a bound on the steps the handler has left: the calls still ahead of it in
   the try block, the strategies not yet tried, the seconds the polling loop
   has left *)
Rank ==
    LET after_poll   == 3
        before_poll  == after_poll + PollingBound
        before_loop  == before_poll + 3
    IN  IF pc = "done" THEN 0
        ELSE IF pc = "finally" THEN 1
        ELSE IF pc = "respond" THEN 2
        ELSE IF pc = "poll" THEN after_poll + (PollingBound - Elapsed)
        ELSE IF pc = "submit" THEN before_poll + 1
        ELSE IF pc = "upload" THEN before_poll + 2
        ELSE IF pc = "upload_entry" THEN before_poll + 3
        ELSE IF pc = "strategy" THEN before_loop + (Len(strategies) - i)
        ELSE IF pc = "check_ffmpeg" THEN before_loop + Len(strategies) + 1
        ELSE IF pc = "mkdtemp" THEN before_loop + Len(strategies) + 2
        ELSE IF pc = "probe" THEN before_loop + Len(strategies) + 3
        ELSE before_loop + Len(strategies) + 4

(* C13: with every blocking call returning or raising, every request
   eventually returns, ended in Done or Failed; every step brings the
   handler closer to its return by a measure that cannot fall below zero;
   download_audio calls ydl.download at most once per strategy,
   in the order of the list, and the polling loop lasts no longer than its
   budget plus one status request and one sleep, whatever the job's status. *)
C13_EveryRequestEnds ==
    /\ <>(pc = "done" /\ Last(stages) \in TerminalStages)
    /\ [][Rank' < Rank]_vars
    /\ [](Rank >= 0)
    /\ [](/\ Len(invoked) <= Len(strategies)
          /\ \A k \in 1..Len(invoked) : invoked[k].strategy = k)
    /\ [](Elapsed <= PollingBound)

(* the loop has ended on its budget with the job never completed or failed *)
C13_Witness ==
    /\ pc = "respond"
    /\ Contains(exc.msg, M_timed_out)
    /\ lastPoll.status \in {"queued", "processing"}
    /\ Elapsed > TRANSCRIPTION_TIMEOUT

SpeechCalls == {"upload", "submit", "poll"}

(* C14: once a step of upload_to_assemblyai has failed (the upload, the
   transcription request, a status request that got no answer or an answer
   other than 200, a job status of error, the budget running out, or one of
   the checks before the upload), the handler makes no further external
   call: it is on its way out with a TranscriptionError, and the response it
   gives is the transcription failure's. *)
C14_NoCallAfterFailure ==
    txFailed # 0 =>
       /\ txFailed = 1
       /\ pc \in {"respond", "finally", "done"}
       /\ exc.type = "TranscriptionError"
       /\ Answered =>
             /\ ~response.success
             /\ StartsWith(response.error, M_transcription_failed)
             /\ endpoint = "api" => response.status = 500

(* a status request got no answer after the job had been seen processing *)
C14_Witness ==
    /\ pc = "respond"
    /\ txFailed = 1
    /\ lastPoll.status = "processing"
    /\ Contains(exc.msg, M_network_error)
    /\ called = {"probe", "download"} \cup SpeechCalls

(* C15: a request that entered the try block returns the response its try
   statement produced, the same whether os.remove and shutil.rmtree succeeded
   or raised in the finally clause; and when os.remove raised, shutil.rmtree
   was still called on the directory: it removed it or raised in its turn. *)
C15_DeletionFailureNotEscalated ==
    pc = "done" /\ Entered("Probing") =>
       /\ response = HandlerResult(endpoint, exc, transcript, video_info)
       /\ rmFailed => (rmtreeFailed \/ ~dirExists)

(* a successful request whose audio file could not be removed and whose
   directory then was *)
C15_Witness ==
    /\ pc = "done"
    /\ response.success
    /\ rmFailed
    /\ ~rmtreeFailed
    /\ ~dirExists

(* validate_video_info was called and raised *)
ProbeFailed == probeOut # NoProbe /\ video_info = NoInfo

(* C16: when the field is rejected or validate_video_info raises, the request
   has allocated nothing, then and until it returns: no temporary directory
   was made, no file exists, ydl.download was not called and no request went
   to the speech service; the only external call made, if any, is the probe. *)
C16_NothingAllocatedOnEarlyFailure ==
    Rejected \/ ProbeFailed =>
       /\ temp_dir = NoPath
       /\ audio_file = NoPath
       /\ ~dirExists
       /\ files = NoFiles
       /\ called \subseteq {"probe"}
       /\ Rejected => called = {}
       /\ ~Entered("Downloading")
       /\ ~Entered("Transcribing")
       /\ pc = "done" => ~response.success

(* a request whose probe raised has returned *)
C16_Witness ==
    /\ pc = "done"
    /\ ProbeFailed
    /\ probeOut.kind = "extractor_error"
    /\ called = {"probe"}

(* upload_to_assemblyai has made its checks and the file is still in place *)
PastUploadChecks == pc \in {"upload", "submit", "poll", "respond", "finally"}

(* C17: upload_to_assemblyai called with a file of more than 200*1024*1024
   bytes raises TranscriptionError without a request to the speech service
   (no upload, no transcription request, no status request), and the handler
   answers with the transcription failure; called with a file of exactly
   that size or less, it is never refused for the size, and with the API key
   configured it goes on to the upload. *)
C17_UploadCeiling ==
    PastUploadChecks =>
       /\ files[audio_file] > ASSEMBLYAI_MAX_SIZE =>
             /\ pc \in {"respond", "finally"}
             /\ exc.type = "TranscriptionError"
             /\ exc.msg \in {M_too_large_upload, M_no_key}
             /\ called \cap SpeechCalls = {}
             /\ pc = "finally" =>
                   /\ ~response.success
                   /\ StartsWith(response.error, M_transcription_failed)
       /\ files[audio_file] <= ASSEMBLYAI_MAX_SIZE =>
             /\ exc.msg # M_too_large_upload
             /\ exc.msg # M_no_key => (pc = "upload" \/ "upload" \in called)

(* a file of exactly 200*1024*1024 bytes has been uploaded *)
C17_Witness ==
    /\ files[audio_file] = ASSEMBLYAI_MAX_SIZE
    /\ pc = "submit"
    /\ "upload" \in called

(* C18: in the pipeline upload_to_assemblyai is called only with the file
   download_audio returned, which exists and has between 1024 and
   100*1024*1024 bytes, whatever ydl.download wrote; it keeps that size
   until the finally clause, and the too-large refusal of
   upload_to_assemblyai is never raised. *)
C18_UploadGetsValidArtifact ==
    /\ Entered("Transcribing") /\ pc # "done" =>
          /\ audio_file # NoPath
          /\ ValidSize(files[audio_file])
          /\ files[audio_file] <= ASSEMBLYAI_MAX_SIZE
    /\ pc = "upload_entry" =>
          /\ invoked # <<>>
          /\ Last(invoked).did.kind = "wrote"
          /\ Last(invoked).did.ext = audio_file
          /\ Last(invoked).did.size = files[audio_file]
    /\ exc.msg # M_too_large_upload
    /\ ~Contains(response.error, M_too_large_upload)

(* upload_to_assemblyai is about to be called with a file of exactly
   100*1024*1024 bytes, after an earlier strategy left a file over 200MB that
   was refused and removed *)
C18_Witness ==
    /\ pc = "upload_entry"
    /\ files[audio_file] = MAX_FILE_SIZE
    /\ \E k \in 1..Len(invoked) : invoked[k].did.size > ASSEMBLYAI_MAX_SIZE

(* durations the gate lets through: none reported, or one up to the limit *)
WithinLimit(d) == d = NoDuration \/ (d >= 0 /\ d <= MAX_VIDEO_DURATION)

(* C19: VideoTooLongError is raised only for a reported duration strictly
   greater than 1800, and for every such duration; when extract_info reports
   exactly 1800, 0, or no duration, validate_video_info returns and the
   handler goes on to the download stage. *)
C19_TooLongGateStrict ==
    /\ root = "VideoTooLongError" =>
          /\ probeOut.kind = "info"
          /\ probeOut.duration > MAX_VIDEO_DURATION
    /\ probeOut.kind = "info" /\ probeOut.duration > MAX_VIDEO_DURATION =>
          /\ ProbeFailed
          /\ root = "VideoTooLongError"
    /\ probeOut.kind = "info" /\ WithinLimit(probeOut.duration) =>
          /\ ~ProbeFailed
          /\ video_info.duration = (IF probeOut.duration = NoDuration THEN 0
                                    ELSE probeOut.duration)
          /\ Entered("Downloading")

(* a video reported at exactly 1800 seconds has been downloaded *)
C19_Witness ==
    /\ probeOut.kind = "info"
    /\ probeOut.duration = MAX_VIDEO_DURATION
    /\ pc = "upload_entry"
    /\ "download" \in called

====
